---- MODULE Spec2Model ----
(***************************************************************************)
(* KD Strategy B: the per-symbol signal state machine of process_symbol    *)
(* (src/kd_strategyB.py), its state store (load_state / save_state) and    *)
(* the push wrapper it hands alerts to.                                    *)
(*                                                                         *)
(* Time stamps are hours since an epoch.  A daily bar d is stamped 24*d    *)
(* and a weekly bar w is stamped 24*7*w (yfinance stamps a bar at 00:00,   *)
(* tz-naive); the code localises the stamp as UTC and formats its date in  *)
(* TZ_NAME (Asia/Taipei, UTC+8).                                           *)
(***************************************************************************)
EXTENDS Integers, Sequences, FiniteSets, TLC

\* ---- bounds of the model -------------------------------------------------
\* number of distinct settled daily bars a fetch may end with
NDays == 2
\* number of distinct settled weekly bars a fetch may end with
NWeeks == 2
\* number of faults (save_state raising, the process stopping) a behaviour may hold
MaxFaults == 1

\* ---- program constants ---------------------------------------------------
\* float("nan"): an undefined moving average (prices are non-negative)
NaN == -1
\* UTC offset of TZ_NAME = "Asia/Taipei", in hours
TZ_OFFSET == 8
\* the weekly filter's K threshold (w_k >= 50.0)
K_THRESHOLD == 50

\* K_PERIOD, DAILY_MA, WEEKLY_MA: the defaults of the tunables
K_PERIOD == 9
DAILY_MA == 20
WEEKLY_MA == 20

\* the symbols processed (tickers, as numbers)
Symbols == {2330}

\* ---- pure functions ------------------------------------------------------
\* a comparison with NaN is false in Python
Gt(a, b) == a # NaN /\ b # NaN /\ a > b

\* mutant: K must have been strictly below D before
crossed_up_strict(k_prev, d_prev, k, d) == k_prev < d_prev /\ k > d

crossed_up(k_prev, d_prev, k, d) == k_prev <= d_prev /\ k > d

\* mutant: any separation of the current pair counts
crossed_down_either_way(k_prev, d_prev, k, d) == k_prev >= d_prev /\ k # d

crossed_down(k_prev, d_prev, k, d) == k_prev >= d_prev /\ k < d

\* weekly_ok of process_symbol
\* mutant: the weekly filter without the test that the average exists
WeeklyOkAnyAverage(w_k, w_d, w_close, w_ma20) ==
    (w_k > w_d) /\ (w_k >= K_THRESHOLD) /\ (w_close > w_ma20)

WeeklyOk(w_k, w_d, w_close, w_ma20) ==
    (w_k > w_d) /\ (w_k >= K_THRESHOLD) /\ (w_ma20 # NaN /\ w_close > w_ma20)

\* pd.Timestamp(ts).tz_localize("UTC").tz_convert(TZ_NAME).strftime("%Y-%m-%d"):
\* the calendar day, in the trading time zone, of a stamp given in UTC hours
DateStr(ts) == (ts + TZ_OFFSET) \div 24

\* ex_key = f"daily_exit@{date_key}"
ExKey(d_ts) == [kind |-> "daily_exit", date |-> DateStr(d_ts)]

\* full_key = f"weekly_off@{w_week_str}"
FullKey(w_idx) == [kind |-> "weekly_off", date |-> DateStr(w_idx)]

\* ---- inputs: what the fetches and the indicator engine hand over --------
KDVals == {0, 1}
DailyStamps == {24 * d : d \in 1..NDays}
WeeklyStamps == {24 * 7 * w : w \in 1..NWeeks}

RawInputs ==
    [k_prev : KDVals, dprev_prev : KDVals, k_last : KDVals, d_last_d : KDVals,
     d_close : {100}, d_ma20 : {NaN, 95, 100},
     w_k : {49, 50, 55}, w_d : {45, 50},
     w_close : {90, 100}, w_ma20 : {NaN, 95}]

\* lines 259-262: the four booleans the rules read
Derive(r) ==
    [weekly_ok |-> WeeklyOk(r.w_k, r.w_d, r.w_close, r.w_ma20),
     entry_cross |-> crossed_up(r.k_prev, r.dprev_prev, r.k_last, r.d_last_d),
     exit_cross |-> crossed_down(r.k_prev, r.dprev_prev, r.k_last, r.d_last_d),
     daily_trend_ok |-> Gt(r.d_close, r.d_ma20)]

Signals == {Derive(r) : r \in RawInputs}

\* the locals of one invocation after line 262
Locals == {[sig |-> s, d_ts |-> d, w_idx |-> w] :
              s \in Signals, d \in DailyStamps, w \in WeeklyStamps}

NoLocals == [sig |-> [weekly_ok |-> FALSE, entry_cross |-> FALSE,
                      exit_cross |-> FALSE, daily_trend_ok |-> FALSE],
             d_ts |-> 0, w_idx |-> 0]

\* max(a, b)
Max(a, b) == IF a >= b THEN a ELSE b

\* lines 225-226
need_d == Max(DAILY_MA + 2, K_PERIOD + 2)
need_w == Max(WEEKLY_MA + 2, K_PERIOD + 2)

\* the lengths of the settled daily series (last_completed_daily may have
\* dropped the only bar) and of the weekly series (a fetch that finds no bar
\* raises, so a fetched series holds one at least)
DailyLens == {0, 1, need_d - 1, need_d}
WeeklyLens == {1, need_w - 1, need_w}

\* fewer settled daily bars than max(DAILY_MA+2, K_PERIOD+2) or fewer weekly
\* bars than max(WEEKLY_MA+2, K_PERIOD+2)
TooShort(nd, nw) ==
    \/ nd < (IF DAILY_MA >= K_PERIOD THEN DAILY_MA ELSE K_PERIOD) + 2
    \/ nw < (IF WEEKLY_MA >= K_PERIOD THEN WEEKLY_MA ELSE K_PERIOD) + 2

\* mutant: the skip test with "and" for "or"
SkipsWhenBothShort(nd, nw) == nd < need_d /\ nw < need_w

\* line 227: len(df_d) < need_d or len(df_w) < need_w
Skips(nd, nw) == nd < need_d \/ nw < need_w

\* ---- the state dict ------------------------------------------------------
EmptyState == [s \in {} |-> 0]

\* {"position": "flat", "alerts": {}}: alerts maps a key to True, so it is
\* modelled by the set of its keys
DefaultSymState == [position |-> "flat", alerts |-> {}]

\* state.get(sym, {"position": "flat", "alerts": {}})
GetSymState(st, sym) == IF sym \in DOMAIN st THEN st[sym] ELSE DefaultSymState

\* state[sym] = sym_state
Assign(st, sym, ss) == [s \in DOMAIN st \cup {sym} |-> IF s = sym THEN ss ELSE st[s]]

\* alerted(key): alerts.get(key, False)
alerted(ss, key) == key \in ss.alerts

VARIABLES
    store,      \* the content of STATE_FILE
    state,      \* the state dict of the running process
    pc,         \* where process_symbol stands
    cur,        \* sym of the invocation
    loc,        \* the invocation's locals (signals and bar stamps)
    sym_state,  \* the local sym_state
    out,        \* history: the alerts handed to send_to in this invocation
    saves,      \* history: save_state calls that returned in this invocation
    pre,        \* history: the state dict when the invocation began
    repeat,     \* history: the invocation repeats the previous one's inputs
    prev_out,   \* history: what the previous invocation handed over, when this one repeats it
    ee,         \* history: the last two Entry/Exit alerts, oldest first
    faults,     \* history: the faults so far
    short,      \* history: the invocation was handed a series shorter than the minimum
    sent,       \* history: per key, how often its alert was handed over (2 = more than once)
    dry,        \* DRY_RUN, as the environment of the process sets it
    pushes,     \* history: the alerts of this invocation that send_to passed on to push_text
    prev_dry    \* history: DRY_RUN of the previous invocation, when this one repeats it

\* main(), the batch driver
VARIABLES
    m_pc,       \* where main is: "rest", "start", "loop", "except", "end"
    m_data,     \* the subscription file: recipient -> set of symbols
    m_subs,     \* subs: symbol -> set of recipients
    m_symbols,  \* symbols: the sorted list
    m_i,        \* the position of the for loop in symbols
    m_log       \* history: the calls of process_symbol and how each ended

mainVars == <<m_pc, m_data, m_subs, m_symbols, m_i, m_log>>

procVars == <<store, state, pc, cur, loc, sym_state, out, saves, pre, repeat, prev_out, ee, faults, sent,
              short, dry, pushes, prev_dry>>

\* the pure functions, applied on their own
VARIABLES
    args,       \* the arguments of the call
    result      \* what the call returned, <<>> before it

pureVars == <<args, result>>

\* send_to(recipients, text)
VARIABLES
    s_pc,          \* where send_to is: "rest", "start", "loop", "except", "end"
    s_recipients,  \* the argument
    s_dry,         \* DRY_RUN
    s_todo,        \* the recipients the for loop has still to visit
    s_rid,         \* rid
    s_calls,       \* history: recipient -> calls of push_text
    s_errors,      \* history: the recipients push_text raised for
    s_printed      \* history: the [DRY_RUN] lines printed

sendVars == <<s_pc, s_recipients, s_dry, s_todo, s_rid, s_calls, s_errors, s_printed>>

\* the variables of the other components, which process_symbol leaves alone
\* _post(url, payload, retries, backoff) of line_push.py
VARIABLES
    p_pc,       \* where _post is: "rest", "post", "sleep", "returned", "raised"
    p_retries,  \* the argument retries
    p_i,        \* i of the for loop
    p_log       \* history: the status codes of the POSTs made

postVars == <<p_pc, p_retries, p_i, p_log>>

\* the subscription store and the calls working on it
VARIABLES
    file,       \* the stored map: recipient -> set of symbols
    jobs        \* the calls in progress: worker -> its operation, locals and position

subsVars == <<file, jobs>>

\* webhook() of line_webhook.py
VARIABLES
    h_pc,       \* where the handler is: "rest", "loop", "reply", "end", "raised"
    h_events,   \* body["events"]
    h_i,        \* the position of the for loop in events
    h_log       \* history: what the handler did, in order

hookVars == <<h_pc, h_events, h_i, h_log>>

lineVars == <<postVars, subsVars, hookVars>>

others == <<mainVars, pureVars, sendVars, lineVars>>

\* what main, a pure function and send_to each leave alone
notMain == <<procVars, pureVars, sendVars, lineVars>>
notPure == <<procVars, mainVars, sendVars, lineVars>>
notSend == <<procVars, mainVars, pureVars, lineVars>>
notPost == <<procVars, mainVars, pureVars, sendVars, subsVars, hookVars>>
notSubs == <<procVars, mainVars, pureVars, sendVars, postVars, hookVars>>
notHook == <<procVars, mainVars, pureVars, sendVars, postVars>>

vars == <<store, state, pc, cur, loc, sym_state, out, saves, pre, repeat, prev_out, ee, faults, sent,
          short, dry, pushes, prev_dry, others>>

AllKeys == {ExKey(d) : d \in DailyStamps} \cup {FullKey(w) : w \in WeeklyStamps}

\* main is not running
MainIdle ==
    /\ m_pc = "rest"
    /\ m_data = <<>>
    /\ m_subs = <<>>
    /\ m_symbols = <<>>
    /\ m_i = 0
    /\ m_log = <<>>

\* no pure function is being applied
PureIdle ==
    /\ args = <<>>
    /\ result = <<>>

\* send_to is not running
SendIdle ==
    /\ s_pc = "rest"
    /\ s_recipients = {}
    /\ s_dry = FALSE
    /\ s_todo = {}
    /\ s_rid = ""
    /\ s_calls = <<>>
    /\ s_errors = {}
    /\ s_printed = 0

\* _post is not running
PostIdle ==
    /\ p_pc = "rest"
    /\ p_retries = 0
    /\ p_i = 0
    /\ p_log = <<>>

\* no subscription call is running
SubsIdle ==
    /\ file = <<>>
    /\ jobs = <<>>

\* the webhook is not running
HookIdle ==
    /\ h_pc = "rest"
    /\ h_events = <<>>
    /\ h_i = 0
    /\ h_log = <<>>

LineIdle == PostIdle /\ SubsIdle /\ HookIdle

\* the other components at rest
OthersIdle == MainIdle /\ PureIdle /\ SendIdle /\ LineIdle

\* the first run: no STATE_FILE, no invocation yet
ProcInit ==
    /\ store = EmptyState
    /\ state = EmptyState
    /\ pc = "idle"
    /\ cur = 2330
    /\ loc = NoLocals
    /\ sym_state = DefaultSymState
    /\ out = <<>>
    /\ saves = 0
    /\ pre = EmptyState
    /\ repeat = FALSE
    /\ prev_out = <<>>
    /\ ee = <<>>
    /\ faults = 0
    /\ sent = [k \in AllKeys |-> 0]
    /\ short = FALSE
    /\ dry = FALSE
    /\ pushes = 0
    /\ prev_dry = FALSE

Init == ProcInit /\ OthersIdle

\* ---- the rules of process_symbol -----------------------------------------
\* mutant: the Entry rule without its position test
EntryCondAnyPosition(ss, sig) ==
    sig.weekly_ok /\ sig.entry_cross /\ sig.daily_trend_ok

\* line 286: the Entry rule's condition
EntryCond(ss, sig) ==
    ss.position = "flat" /\ sig.weekly_ok /\ sig.entry_cross /\ sig.daily_trend_ok

\* mutant: the Reduce rule without its key test
ReduceCondNoKey(ss, sig, ex_key) ==
    ss.position = "long" /\ sig.exit_cross

\* line 303: the Reduce rule's condition
ReduceCond(ss, sig, ex_key) ==
    ss.position = "long" /\ sig.exit_cross /\ ~alerted(ss, ex_key)

\* lines 315-316: the Exit rule's condition
ExitCond(ss, sig, full_key) ==
    ss.position = "long" /\ ~sig.weekly_ok /\ ~alerted(ss, full_key)

\* lines 293-294: sym_state["position"] = "long"; sym_state["last_entry"] = str(d_ts)
AfterEntry(ss, d_ts) ==
    [f \in DOMAIN ss \cup {"last_entry"} |->
        IF f = "position" THEN "long" ELSE IF f = "last_entry" THEN d_ts ELSE ss[f]]

\* mutant: mark_alert that leaves alerts as it was
mark_alert_forgets(ss, key) == ss

\* mutant: mark_alert that also closes the position
mark_alert_flattens(ss, key) == [ss EXCEPT !.alerts = @ \cup {key}, !.position = "flat"]

\* lines 280-281 of mark_alert: alerts[key] = True; sym_state["alerts"] = alerts
mark_alert(ss, key) == [ss EXCEPT !.alerts = @ \cup {key}]

\* line 322: sym_state["position"] = "flat"
AfterExit(ss) == [ss EXCEPT !.position = "flat"]

Alert(kind, ts) == [kind |-> kind, date |-> DateStr(ts)]

\* the last two of a history
Last2(h, x) == IF Len(h) < 2 THEN Append(h, x) ELSE <<h[2], x>>

Count(n) == IF n < 2 THEN n + 1 ELSE n

\* mutant: send_to passes the alert on to push_text whatever DRY_RUN says
send_to_ignores_dry ==
    /\ pushes' = pushes + 1

\* lines 206-216, send_to(recipients, msg) as process_symbol sees it: under
\* DRY_RUN it prints and returns, else the alert goes on to push_text
send_to ==
    /\ pushes' = IF dry THEN pushes ELSE pushes + 1

\* state[sym] = sym_state; save_state(state) returns; control goes to next
Persist(ss, next) ==
    /\ sym_state' = ss
    /\ state' = Assign(state, cur, ss)
    /\ store' = state'
    /\ saves' = saves + 1
    /\ pc' = next

\* mutant: state.setdefault(sym, ...) in place of state.get(sym, ...)
EnterSetDefault(sym, l) ==
    /\ cur' = sym
    /\ loc' = l
    /\ sym_state' = GetSymState(state, sym)
    /\ state' = Assign(state, sym, GetSymState(state, sym))
    /\ out' = <<>>
    /\ pushes' = 0
    /\ saves' = 0
    /\ pre' = state
    /\ pc' = "entry"
    /\ UNCHANGED <<store, ee, sent, faults>>

\* lines 220-274: fetch, indicators, signals; sym_state = state.get(sym, ...)
Enter(sym, l) ==
    /\ cur' = sym
    /\ loc' = l
    /\ sym_state' = GetSymState(state, sym)
    /\ out' = <<>>
    /\ pushes' = 0
    /\ saves' = 0
    /\ pre' = state
    /\ pc' = "entry"
    /\ UNCHANGED <<store, state, ee, sent, faults>>

\* process_symbol(sym, ...) is called; the fetches hand over nd settled daily
\* bars and nw weekly bars, enough to go on, and the indicators give l
Begin(sym, l, nd, nw) ==
    /\ pc = "idle"
    /\ ~Skips(nd, nw)
    /\ Enter(sym, l)
    /\ repeat' = FALSE
    /\ prev_out' = <<>>
    /\ prev_dry' = FALSE
    /\ short' = TooShort(nd, nw)
    /\ UNCHANGED dry
    /\ UNCHANGED others

\* lines 222-229: process_symbol(sym, ...) is called, the series are too short,
\* it prints [SKIP] and returns
Skip(sym, nd, nw) ==
    /\ pc = "idle"
    /\ Skips(nd, nw)
    /\ cur' = sym
    /\ loc' = NoLocals
    /\ sym_state' = GetSymState(state, sym)   \* line 273 is not reached: the entry as it stands
    /\ out' = <<>>
    /\ saves' = 0
    /\ pre' = state
    /\ repeat' = FALSE
    /\ prev_out' = <<>>
    /\ short' = TooShort(nd, nw)
    /\ pc' = "done"
    /\ pushes' = 0
    /\ prev_dry' = FALSE
    /\ UNCHANGED <<store, state, ee, sent, faults, dry>>
    /\ UNCHANGED others

\* process_symbol has returned and is called again for the same symbol, on the
\* state it left, and the fetches hand over what they did before
Again ==
    /\ pc = "done"
    /\ loc \in Locals
    /\ Enter(cur, loc)
    /\ repeat' = TRUE
    /\ prev_out' = out
    /\ prev_dry' = dry
    /\ UNCHANGED <<short, dry>>
    /\ UNCHANGED others

\* lines 286-292: the Entry rule fires; send_to(recipients, msg)
EntryFire ==
    /\ pc = "entry"
    /\ EntryCond(sym_state, loc.sig)
    /\ out' = Append(out, Alert("Entry", loc.d_ts))
    /\ ee' = Last2(ee, "Entry")
    /\ pc' = "entry_sent"
    /\ send_to
    /\ UNCHANGED <<dry, prev_dry>>
    /\ UNCHANGED <<store, state, cur, loc, sym_state, saves, pre, repeat, prev_out, short, sent, faults>>
    /\ UNCHANGED others

\* line 286, condition false
EntrySkip ==
    /\ pc = "entry"
    /\ ~EntryCond(sym_state, loc.sig)
    /\ pc' = "reduce"
    /\ UNCHANGED <<store, state, cur, loc, sym_state, out, saves, pre, repeat, prev_out, short, ee, sent, faults>>
    /\ UNCHANGED <<dry, pushes, prev_dry>>
    /\ UNCHANGED others

\* mutant: the Entry branch without its return
EntryPersistFallsThrough ==
    /\ pc = "entry_sent"
    /\ Persist(AfterEntry(sym_state, loc.d_ts), "reduce")
    /\ UNCHANGED <<cur, loc, out, pre, repeat, prev_out, short, ee, sent, faults>>
    /\ UNCHANGED <<dry, pushes, prev_dry>>
    /\ UNCHANGED others

\* lines 293-298: mutate, save_state, return
EntryPersist ==
    /\ pc = "entry_sent"
    /\ Persist(AfterEntry(sym_state, loc.d_ts), "done")
    /\ UNCHANGED <<cur, loc, out, pre, repeat, prev_out, short, ee, sent, faults>>
    /\ UNCHANGED <<dry, pushes, prev_dry>>
    /\ UNCHANGED others

\* lines 301-308: the Reduce rule fires; send_to(recipients, msg)
ReduceFire ==
    /\ pc = "reduce"
    /\ ReduceCond(sym_state, loc.sig, ExKey(loc.d_ts))
    /\ out' = Append(out, Alert("Reduce", loc.d_ts))
    /\ sent' = [sent EXCEPT ![ExKey(loc.d_ts)] = Count(@)]
    /\ pc' = "reduce_sent"
    /\ send_to
    /\ UNCHANGED <<dry, prev_dry>>
    /\ UNCHANGED <<store, state, cur, loc, sym_state, saves, pre, repeat, prev_out, short, ee, faults>>
    /\ UNCHANGED others

\* line 303, condition false
ReduceSkip ==
    /\ pc = "reduce"
    /\ ~ReduceCond(sym_state, loc.sig, ExKey(loc.d_ts))
    /\ pc' = "exit"
    /\ UNCHANGED <<store, state, cur, loc, sym_state, out, saves, pre, repeat, prev_out, short, ee, sent, faults>>
    /\ UNCHANGED <<dry, pushes, prev_dry>>
    /\ UNCHANGED others

\* mutant: the Reduce branch returns, as the Entry branch does
ReducePersistReturns ==
    /\ pc = "reduce_sent"
    /\ Persist(mark_alert(sym_state, ExKey(loc.d_ts)), "done")
    /\ UNCHANGED <<cur, loc, out, pre, repeat, prev_out, short, ee, sent, faults>>
    /\ UNCHANGED <<dry, pushes, prev_dry>>
    /\ UNCHANGED others

\* lines 309-310: mark_alert(ex_key), which saves; control falls through to Exit
ReducePersist ==
    /\ pc = "reduce_sent"
    /\ Persist(mark_alert(sym_state, ExKey(loc.d_ts)), "exit")
    /\ UNCHANGED <<cur, loc, out, pre, repeat, prev_out, short, ee, sent, faults>>
    /\ UNCHANGED <<dry, pushes, prev_dry>>
    /\ UNCHANGED others

\* lines 313-321: the Exit rule fires; send_to(recipients, msg)
ExitFire ==
    /\ pc = "exit"
    /\ ExitCond(sym_state, loc.sig, FullKey(loc.w_idx))
    /\ out' = Append(out, Alert("Exit", loc.w_idx))
    /\ sent' = [sent EXCEPT ![FullKey(loc.w_idx)] = Count(@)]
    /\ ee' = Last2(ee, "Exit")
    /\ pc' = "exit_sent"
    /\ send_to
    /\ UNCHANGED <<dry, prev_dry>>
    /\ UNCHANGED <<store, state, cur, loc, sym_state, saves, pre, repeat, prev_out, short, faults>>
    /\ UNCHANGED others

\* line 316, condition false
ExitSkip ==
    /\ pc = "exit"
    /\ ~ExitCond(sym_state, loc.sig, FullKey(loc.w_idx))
    /\ pc' = "done"
    /\ UNCHANGED <<store, state, cur, loc, sym_state, out, saves, pre, repeat, prev_out, short, ee, sent, faults>>
    /\ UNCHANGED <<dry, pushes, prev_dry>>
    /\ UNCHANGED others

\* lines 322-325: mutate, save_state
ExitPersist ==
    /\ pc = "exit_sent"
    /\ Persist(AfterExit(sym_state), "done")
    /\ UNCHANGED <<cur, loc, out, pre, repeat, prev_out, short, ee, sent, faults>>
    /\ UNCHANGED <<dry, pushes, prev_dry>>
    /\ UNCHANGED others

\* the invocation's histories are dropped when it is over
Forget ==
    /\ loc' = NoLocals
    /\ sym_state' = DefaultSymState
    /\ out' = <<>>
    /\ pushes' = 0
    /\ prev_dry' = FALSE
    /\ saves' = 0
    /\ pre' = EmptyState
    /\ repeat' = FALSE
    /\ prev_out' = <<>>
    /\ short' = FALSE

\* process_symbol returns to its caller
Return ==
    /\ pc = "done"
    /\ pc' = "idle"
    /\ Forget
    /\ UNCHANGED <<store, state, cur, ee, sent, faults, dry>>
    /\ UNCHANGED others

\* a new run: state = load_state()
load_state ==
    /\ pc = "idle"
    /\ state' = store
    /\ UNCHANGED <<store, pc, cur, loc, sym_state, out, saves, pre, repeat, prev_out, short, ee, sent, faults>>
    /\ UNCHANGED <<dry, pushes, prev_dry>>
    /\ UNCHANGED others

Next ==
    \/ \E sym \in Symbols, l \in Locals, nd \in DailyLens, nw \in WeeklyLens : Begin(sym, l, nd, nw)
    \/ \E sym \in Symbols, nd \in DailyLens, nw \in WeeklyLens : Skip(sym, nd, nw)
    \/ EntryFire
    \/ EntrySkip
    \/ EntryPersist
    \/ ReduceFire
    \/ ReduceSkip
    \/ ReducePersist
    \/ ExitFire
    \/ ExitSkip
    \/ ExitPersist
    \/ Again
    \/ Return
    \/ load_state

Spec == Init /\ [][Next]_vars

\* ---- faults: save_state raises, the process stops -------------------------
\* the mutation each rule makes before it calls save_state
Mutated ==
    CASE pc = "entry_sent" -> AfterEntry(sym_state, loc.d_ts)
      [] pc = "reduce_sent" -> mark_alert(sym_state, ExKey(loc.d_ts))
      [] pc = "exit_sent" -> AfterExit(sym_state)

\* save_state raises (open, json.dump or os.replace fails): STATE_FILE keeps its
\* content, the dict of the process keeps the mutation, the exception leaves
\* process_symbol
SaveRaises ==
    /\ pc \in {"entry_sent", "reduce_sent", "exit_sent"}
    /\ faults < MaxFaults
    /\ faults' = faults + 1
    /\ sym_state' = Mutated
    /\ state' = Assign(state, cur, Mutated)
    /\ pc' = "raised"
    /\ UNCHANGED <<store, cur, loc, out, saves, pre, repeat, prev_out, short, ee, sent>>
    /\ UNCHANGED <<dry, pushes, prev_dry>>
    /\ UNCHANGED others

\* main's except clause: the run goes on with the dict as it is
Caught ==
    /\ pc = "raised"
    /\ pc' = "idle"
    /\ Forget
    /\ UNCHANGED <<store, state, cur, ee, sent, faults, dry>>
    /\ UNCHANGED others

\* the process stops between two steps of process_symbol: its dict is gone
Stop ==
    /\ pc \in {"entry", "entry_sent", "reduce", "reduce_sent", "exit", "exit_sent"}
    /\ pc' = "stopped"
    /\ faults < MaxFaults
    /\ faults' = faults + 1
    /\ state' = EmptyState
    /\ UNCHANGED <<store, cur, loc, sym_state, out, saves, pre, repeat, prev_out, short, ee, sent>>
    /\ UNCHANGED <<dry, pushes, prev_dry>>
    /\ UNCHANGED others

\* the next run after a stop: state = load_state()
Restart ==
    /\ pc = "stopped"
    /\ pc' = "idle"
    /\ state' = store
    /\ Forget
    /\ UNCHANGED <<store, cur, ee, sent, faults, dry>>
    /\ UNCHANGED others

NextFault ==
    \/ Next
    \/ SaveRaises
    \/ Caught
    \/ Stop
    \/ Restart

SpecFault == Init /\ [][NextFault]_vars

\* ---- what the claims read -------------------------------------------------
Kinds(o) == {o[i].kind : i \in DOMAIN o}

\* the position a state dict holds for sym (a symbol never seen is flat)
Pos(st, sym) == GetSymState(st, sym).position

Running == pc \notin {"idle", "stopped"}

\* C1: an invocation that repeats the previous one's inputs on the state that
\* one left hands over no alert, mutates nothing and saves nothing, at every
\* step of it.
C1_Idempotent ==
    (repeat /\ Running) =>
        /\ out = <<>>
        /\ saves = 0
        /\ state = pre
        /\ store = pre
        /\ sym_state = GetSymState(pre, cur)

\* the repeated invocation is over and the one before it sent a Reduce and an Exit
C1_Witness == repeat /\ pc = "done" /\ Kinds(prev_out) = {"Reduce", "Exit"}

C3_PositionTransitions ==
    Running =>
        LET p0 == Pos(pre, cur)
            here == {sym_state.position, Pos(state, cur), Pos(store, cur)}
        IN /\ (p0 = "flat" /\ "long" \in here) => "Entry" \in Kinds(out)
           /\ (p0 = "long" /\ "flat" \in here) => "Exit" \in Kinds(out)
           /\ Kinds(out) = {"Reduce"} => here = {p0}

\* an invocation that sent a Reduce alone and marked its key
C3_Witness ==
    /\ pc = "done"
    /\ Kinds(out) = {"Reduce"}
    /\ saves = 1
    /\ sym_state.position = "long"

C5_ExitMarksKey ==
    (pc = "done" /\ "Exit" \in Kinds(out)) =>
        /\ Pos(state, cur) = "flat"
        /\ saves >= 1
        /\ store = state
        /\ alerted(GetSymState(store, cur), FullKey(loc.w_idx))

\* C6, as claimed: no weekly_off key has its Exit handed over more than once.
C6_ExitOncePerKey == \A w \in WeeklyStamps : sent[FullKey(w)] <= 1

\* the state change an alert stands for is in the store
Recorded(a) ==
    LET ss == GetSymState(store, cur)
    IN CASE a.kind = "Entry" -> ss.position = "long"
         [] a.kind = "Reduce" -> alerted(ss, [kind |-> "daily_exit", date |-> a.date])
         [] a.kind = "Exit" -> ss.position = "flat"

\* C7, as claimed: however an invocation ends (it returns, save_state raises,
\* the process stops), every alert it handed over has its state change in the
\* store.
C7_AlertsDurable ==
    pc \in {"done", "raised", "stopped"} => \A i \in DOMAIN out : Recorded(out[i])

\* C8: an invocation that hands over an Entry hands over nothing else, never
\* reaches the Reduce or the Exit rule, and ends long, with last_entry the
\* daily bar's stamp, after one save_state that wrote the dict to the store.
C8_EntrySupersedes ==
    (Running /\ "Entry" \in Kinds(out)) =>
        /\ out = <<Alert("Entry", loc.d_ts)>>
        /\ pc \in {"entry_sent", "done"}
        /\ pc = "done" =>
              /\ sym_state.position = "long"
              /\ "last_entry" \in DOMAIN sym_state
              /\ sym_state.last_entry = loc.d_ts
              /\ saves = 1
              /\ cur \in DOMAIN state
              /\ state[cur] = sym_state
              /\ store = state

\* an Entry for a symbol never seen before
C8_Witness == pc = "done" /\ "Entry" \in Kinds(out) /\ pre = EmptyState

\* the case of C9: long, a daily cross-down, the weekly filter off, no key fired
C9_Case ==
    LET ss == GetSymState(pre, cur)
    IN /\ ss.position = "long"
       /\ loc.sig.exit_cross
       /\ ~loc.sig.weekly_ok
       /\ ~alerted(ss, ExKey(loc.d_ts))
       /\ ~alerted(ss, FullKey(loc.w_idx))

\* C9: in that case one invocation hands over a Reduce, then an Exit, and ends
\* flat with the daily_exit key fired, in the dict and in the store.
C9_ReduceAndExit ==
    (pc = "done" /\ C9_Case) =>
        /\ out = <<Alert("Reduce", loc.d_ts), Alert("Exit", loc.w_idx)>>
        /\ sym_state.position = "flat"
        /\ alerted(sym_state, ExKey(loc.d_ts))
        /\ saves = 2
        /\ state[cur] = sym_state
        /\ store = state

C9_Witness == pc = "done" /\ C9_Case /\ ~repeat

\* C10: an invocation in which no rule fired has handed over nothing, left the
\* dict as it was (no entry for a symbol never seen) and saved nothing.
C10_NoRuleNoEffect ==
    (pc \in {"reduce", "exit", "done"} /\ out = <<>>) =>
        /\ state = pre
        /\ store = pre
        /\ saves = 0

\* nothing fired for a symbol never seen, and the dict is still empty
C10_Witness == pc = "done" /\ out = <<>> /\ pre = EmptyState /\ state = EmptyState

\* ---- main: the batch over the subscribed symbols ----------------------------
\* tickers are strings of digits; sorted() orders strings character by character
Tickers == {<<5, 0>>, <<1, 1, 0, 1>>, <<2, 3, 3, 0>>}
Recipients == {"U1", "U2"}

\* str.__lt__: a < b
RECURSIVE StrLess(_, _)
StrLess(a, b) ==
    IF b = <<>> THEN FALSE
    ELSE IF a = <<>> THEN TRUE
    ELSE IF Head(a) # Head(b) THEN Head(a) < Head(b)
    ELSE StrLess(Tail(a), Tail(b))

\* sorted(S) for a set of strings
RECURSIVE sorted(_)
sorted(S) ==
    IF S = {} THEN <<>>
    ELSE LET least == CHOOSE x \in S : \A y \in S \ {x} : StrLess(x, y)
         IN <<least>> \o sorted(S \ {least})

\* all_symbols_to_subscribers: the map turned round
all_symbols_to_subscribers(data) ==
    LET syms == UNION {data[rid] : rid \in DOMAIN data}
    IN [sy \in syms |-> {rid \in DOMAIN data : sy \in data[rid]}]

\* how a call of process_symbol ends: it returns, or raises from the fetch,
\* from the indicator computation or from save_state
Outcomes == {"returns", "fetch raises", "compute raises", "save raises"}

InitMain ==
    /\ ProcInit
    /\ LineIdle
    /\ PureIdle
    /\ SendIdle
    /\ m_pc = "start"
    /\ m_data \in [Recipients -> SUBSET Tickers]
    /\ m_subs = <<>>
    /\ m_symbols = <<>>
    /\ m_i = 0
    /\ m_log = <<>>

\* lines 337-343: subs, the early return when nobody subscribed, symbols
MainLoad ==
    /\ m_pc = "start"
    /\ m_subs' = all_symbols_to_subscribers(m_data)
    /\ IF DOMAIN m_subs' = {}
       THEN m_pc' = "end" /\ UNCHANGED <<m_symbols, m_i>>
       ELSE /\ m_symbols' = sorted(DOMAIN m_subs')
            /\ m_i' = 1
            /\ m_pc' = "loop"
    /\ UNCHANGED <<m_data, m_log>>
    /\ UNCHANGED notMain

\* lines 344-346: the next symbol is processed
MainCall(outcome) ==
    /\ m_pc = "loop"
    /\ m_i <= Len(m_symbols)
    /\ m_log' = Append(m_log, [sym |-> m_symbols[m_i], to |-> m_subs[m_symbols[m_i]], end |-> outcome])
    /\ IF outcome = "returns"
       THEN m_i' = m_i + 1 /\ m_pc' = "loop"
       ELSE m_i' = m_i /\ m_pc' = "except"
    /\ UNCHANGED <<m_data, m_subs, m_symbols>>
    /\ UNCHANGED notMain

\* mutant: the exception leaves main
MainExceptPropagates ==
    /\ m_pc = "except"
    /\ m_pc' = "crashed"
    /\ UNCHANGED <<m_data, m_subs, m_symbols, m_i, m_log>>
    /\ UNCHANGED notMain

\* lines 347-348: except Exception prints [ERROR] and the loop goes on
MainExcept ==
    /\ m_pc = "except"
    /\ m_i' = m_i + 1
    /\ m_pc' = "loop"
    /\ UNCHANGED <<m_data, m_subs, m_symbols, m_log>>
    /\ UNCHANGED notMain

\* line 349: the loop is over, [DONE]
MainDone ==
    /\ m_pc = "loop"
    /\ m_i > Len(m_symbols)
    /\ m_pc' = "end"
    /\ UNCHANGED <<m_data, m_subs, m_symbols, m_i, m_log>>
    /\ UNCHANGED notMain

NextMain ==
    \/ MainLoad
    \/ \E o \in Outcomes : MainCall(o)
    \/ MainExcept
    \/ MainDone

SpecMain == InitMain /\ [][NextMain]_vars

\* the symbols somebody subscribed to
Subscribed == UNION {m_data[rid] : rid \in DOMAIN m_data}

\* C12: main calls process_symbol for the subscribed symbols only, in
\* ascending string order and so never twice for one symbol; a call that
\* raises does not end the run, and when the run is at its end every
\* subscribed symbol has been processed
C12_BatchIsolation ==
    /\ m_pc # "crashed"
    /\ \A i \in 1..Len(m_log) : m_log[i].sym \in Subscribed
    /\ \A i, j \in 1..Len(m_log) : i < j => StrLess(m_log[i].sym, m_log[j].sym)
    /\ m_pc = "end" => {m_log[i].sym : i \in 1..Len(m_log)} = Subscribed

\* the first symbol raised, two later ones were processed, the run is at its end
C12_Witness ==
    /\ m_pc = "end"
    /\ Len(m_log) = 3
    /\ m_log[1].end # "returns"
    /\ m_log[2].end = "save raises"
    /\ m_log[3].end = "returns"

\* ---- crossed_up and crossed_down on their own --------------------------------
\* K and D values
CrossVals == {20, 50, 80}

InitCross ==
    /\ ProcInit
    /\ LineIdle
    /\ MainIdle
    /\ SendIdle
    /\ args \in [kp : CrossVals, dp : CrossVals, kc : CrossVals, dc : CrossVals]
    /\ result = <<>>

\* lines 260-261: both predicates are applied to the same four values
ApplyCrossed ==
    /\ result = <<>>
    /\ result' = [entry_cross |-> crossed_up(args.kp, args.dp, args.kc, args.dc),
                  exit_cross |-> crossed_down(args.kp, args.dp, args.kc, args.dc)]
    /\ UNCHANGED args
    /\ UNCHANGED notPure

NextCross == ApplyCrossed

SpecCross == InitCross /\ [][NextCross]_vars

\* C13: crossed_up and crossed_down are never both true of the same four
\* values, so entry_cross and exit_cross are never both true in one invocation
C13_CrossesExclude ==
    /\ result # <<>> => ~(result.entry_cross /\ result.exit_cross)
    /\ \A sig \in Signals : ~(sig.entry_cross /\ sig.exit_cross)

\* K = D at the previous pair, where both previous-pair tests hold, and a cross down
C13_Witness ==
    /\ result # <<>>
    /\ args.kp = args.dp
    /\ result.exit_cross

\* C14: crossed_up is true iff Kp <= Dp and Kc > Dc, crossed_down iff
\* Kp >= Dp and Kc < Dc; K = D at the previous pair still counts when the
\* current pair is strictly apart, K = D at the current pair is never a cross
C14_CrossDefinition ==
    result # <<>> =>
        /\ result.entry_cross <=> (args.kp <= args.dp /\ args.kc > args.dc)
        /\ result.exit_cross <=> (args.kp >= args.dp /\ args.kc < args.dc)
        /\ (args.kp = args.dp /\ args.kc > args.dc) => result.entry_cross
        /\ (args.kp = args.dp /\ args.kc < args.dc) => result.exit_cross
        /\ args.kc = args.dc => ~result.entry_cross /\ ~result.exit_cross

\* K = D before, K above D now: a cross up
C14_Witness ==
    /\ result # <<>>
    /\ args.kp = args.dp
    /\ args.kc > args.dc
    /\ result.entry_cross

\* ---- weekly_ok and the rules that read it -------------------------------------
\* the settled weekly row, the daily booleans and the stored position and key
WeeklyInputs ==
    [w_k : {49, 50, 55}, w_d : {45, 50, 55}, w_close : {90, 100}, w_ma20 : {NaN, 95, 100},
     w_idx : WeeklyStamps, entry_cross : BOOLEAN, daily_trend_ok : BOOLEAN,
     position : {"flat", "long"}, fired : BOOLEAN]

InitWeekly ==
    /\ ProcInit
    /\ LineIdle
    /\ MainIdle
    /\ SendIdle
    /\ args \in WeeklyInputs
    /\ result = <<>>

\* lines 259, 286 and 316: weekly_ok and the conditions of Entry and Exit
ApplyWeeklyOk ==
    /\ result = <<>>
    /\ LET ok == WeeklyOk(args.w_k, args.w_d, args.w_close, args.w_ma20)
           sig == [weekly_ok |-> ok, entry_cross |-> args.entry_cross,
                   exit_cross |-> FALSE, daily_trend_ok |-> args.daily_trend_ok]
           ss == [position |-> args.position,
                  alerts |-> IF args.fired THEN {FullKey(args.w_idx)} ELSE {}]
       IN result' = [weekly_ok |-> ok,
                     entry |-> EntryCond(ss, sig),
                     exit |-> ExitCond(ss, sig, FullKey(args.w_idx))]
    /\ UNCHANGED args
    /\ UNCHANGED notPure

NextWeekly == ApplyWeeklyOk

SpecWeekly == InitWeekly /\ [][NextWeekly]_vars

\* C15: weekly_ok is true iff weekly K > weekly D, weekly K >= 50, the weekly
\* average is defined and the weekly close is above it; with the average
\* undefined weekly_ok is false, no Entry condition holds, and a long position
\* whose weekly_off key has not fired meets the Exit condition
C15_WeeklyFilter ==
    result # <<>> =>
        /\ result.weekly_ok <=>
               /\ args.w_k > args.w_d
               /\ args.w_k >= 50
               /\ args.w_ma20 # NaN
               /\ args.w_close > args.w_ma20
        /\ args.w_ma20 = NaN =>
               /\ ~result.weekly_ok
               /\ ~result.entry
               /\ (args.position = "long" /\ ~args.fired) => result.exit

\* K above D and above 50, the average undefined, a long position: Exit is due
C15_Witness ==
    /\ result # <<>>
    /\ args.w_k > args.w_d
    /\ args.w_k >= 50
    /\ args.w_ma20 = NaN
    /\ args.position = "long"
    /\ result.exit

\* ---- last_completed_daily ------------------------------------------------------
\* trading days, and the index yfinance gives a daily bar of day d: midnight of
\* d, as a naive stamp or as a stamp of the trading time zone (hours, UTC)
BarDays == {1, 2, 3}
IndexOf(d, aware) == IF aware THEN 24 * d - TZ_OFFSET ELSE 24 * d

\* the daily series: up to two bars on ascending days
DaySeqs == {<<>>} \cup {<<a>> : a \in BarDays}
               \cup {q \in {<<a, b>> : a \in BarDays, b \in BarDays} : q[1] < q[2]}

\* the clock, in minutes UTC: a local day and a local time of day
ClockTimes == {0, 12 * 60 + 59, 13 * 60, 13 * 60 + 34, 13 * 60 + 35, 13 * 60 + 36, 14 * 60 + 10, 23 * 60 + 59}
Clocks == {d * 1440 + t - 60 * TZ_OFFSET : d \in {2, 3}, t \in ClockTimes}

\* tz_now(TZ_NAME), in minutes of the trading time zone
tz_now(now) == now + 60 * TZ_OFFSET

\* mutant: the minute test without hour == 13
last_completed_daily_any_hour(idx, aware, now) ==
    IF idx = <<>> THEN idx
    ELSE LET local_now == tz_now(now)
             hour == (local_now % 1440) \div 60
             minute == local_now % 60
             last_idx == idx[Len(idx)]
             last_date == IF aware THEN (last_idx + TZ_OFFSET) \div 24 ELSE last_idx \div 24
         IN IF last_date = local_now \div 1440 /\ (hour < 13 \/ minute < 35)
            THEN SubSeq(idx, 1, Len(idx) - 1)
            ELSE idx

\* last_completed_daily(df), df given by its index
last_completed_daily(idx, aware, now) ==
    IF idx = <<>> THEN idx
    ELSE LET local_now == tz_now(now)
             hour == (local_now % 1440) \div 60
             minute == local_now % 60
             last_idx == idx[Len(idx)]
             last_date == IF aware THEN (last_idx + TZ_OFFSET) \div 24 ELSE last_idx \div 24
         IN IF last_date = local_now \div 1440 /\ (hour < 13 \/ (hour = 13 /\ minute < 35))
            THEN SubSeq(idx, 1, Len(idx) - 1)
            ELSE idx

InitDaily ==
    /\ ProcInit
    /\ LineIdle
    /\ MainIdle
    /\ SendIdle
    /\ args \in [days : DaySeqs, aware : BOOLEAN, now : Clocks]
    /\ result = <<>>

\* line 222: last_completed_daily(fetch_ohlc(sym, "1d"))
ApplyLastCompleted ==
    /\ result = <<>>
    /\ LET idx == [i \in 1..Len(args.days) |-> IndexOf(args.days[i], args.aware)]
       IN result' = [df |-> idx, ret |-> last_completed_daily(idx, args.aware, args.now)]
    /\ UNCHANGED args
    /\ UNCHANGED notPure

NextDaily == ApplyLastCompleted

SpecDaily == InitDaily /\ [][NextDaily]_vars

\* the local calendar day and the local time of day of the clock
Today == (args.now + 60 * TZ_OFFSET) \div 1440
TimeOfDay == (args.now + 60 * TZ_OFFSET) % 1440

\* the case in which the last bar is unsettled
Unsettled ==
    /\ args.days # <<>>
    /\ args.days[Len(args.days)] = Today
    /\ TimeOfDay < 13 * 60 + 35

\* C16: last_completed_daily returns the series without its last bar iff the
\* last bar's day is today in the trading time zone and the local time is
\* before 13:35; otherwise (13:35 itself, an empty series) it returns the
\* series as it is; it never drops more than the last bar
C16_DailyCompletion ==
    result # <<>> =>
        /\ Unsettled => result.ret = SubSeq(result.df, 1, Len(result.df) - 1)
        /\ ~Unsettled => result.ret = result.df
        /\ Len(result.ret) >= Len(result.df) - 1

\* two bars, the last one of today, at 13:34: one bar is left
C16_Witness ==
    /\ result # <<>>
    /\ Len(args.days) = 2
    /\ Unsettled
    /\ TimeOfDay = 13 * 60 + 34
    /\ Len(result.ret) = 1

\* ---- compute_kd_recursive -------------------------------------------------------
\* floats are modelled as exact fractions <<numerator, denominator>> in lowest
\* terms with a positive denominator; nan is <<0, 0>>
nan == <<0, 0>>
isnan(x) == x[2] = 0

RECURSIVE GCD(_, _)
GCD(a, b) == IF b = 0 THEN a ELSE GCD(b, a % b)

Abs(a) == IF a < 0 THEN -a ELSE a

\* the fraction p/q in lowest terms (q # 0)
Frac(p, q) ==
    LET g == GCD(Abs(p), Abs(q))
        sg == IF q < 0 THEN -1 ELSE 1
    IN <<sg * (p \div g), sg * (q \div g)>>

\* float arithmetic: nan in, nan out
FAdd(x, y) == IF isnan(x) \/ isnan(y) THEN nan ELSE Frac(x[1] * y[2] + y[1] * x[2], x[2] * y[2])
FSub(x, y) == IF isnan(x) \/ isnan(y) THEN nan ELSE Frac(x[1] * y[2] - y[1] * x[2], x[2] * y[2])
FMul(x, y) == IF isnan(x) \/ isnan(y) THEN nan ELSE Frac(x[1] * y[1], x[2] * y[2])
FDiv(x, y) == IF isnan(x) \/ isnan(y) THEN nan ELSE Frac(x[1] * y[2], x[2] * y[1])
FLess(x, y) == ~isnan(x) /\ ~isnan(y) /\ x[1] * y[2] < y[1] * x[2]
One == <<1, 1>>
Hundred == <<100, 1>>

\* the positions of a series
Idx(sq) == 1..Len(sq)

\* mutant: windows with min_periods=1
WindowFromFirstBar(col, n, i) == SubSeq(col, IF i - n + 1 >= 1 THEN i - n + 1 ELSE 1, i)

\* rolling(window=n, min_periods=n): the window ending at position i, <<>> while
\* fewer than n values exist
Window(col, n, i) == IF i < n THEN <<>> ELSE SubSeq(col, i - n + 1, i)

\* .min() and .max() of a window, nan for no window
WMin(w) == IF w = <<>> THEN nan ELSE CHOOSE x \in {w[j] : j \in Idx(w)} : \A j \in Idx(w) : ~FLess(w[j], x)
WMax(w) == IF w = <<>> THEN nan ELSE CHOOSE x \in {w[j] : j \in Idx(w)} : \A j \in Idx(w) : ~FLess(x, w[j])

\* lines 182-185: lowest_n, highest_n, denom with 0 replaced by nan, rsv
Column(df, name) == [i \in Idx(df) |-> <<df[i][name], 1>>]
lowest_n(df, n) == [i \in Idx(df) |-> WMin(Window(Column(df, "Low"), n, i))]
highest_n(df, n) == [i \in Idx(df) |-> WMax(Window(Column(df, "High"), n, i))]
denom(df, n) ==
    [i \in Idx(df) |->
        LET diff == FSub(highest_n(df, n)[i], lowest_n(df, n)[i])
        IN IF diff = <<0, 1>> THEN nan ELSE diff]
rsv(df, n) ==
    [i \in Idx(df) |->
        FDiv(FMul(Hundred, FSub(Column(df, "Close")[i], lowest_n(df, n)[i])), denom(df, n)[i])]

\* mutant: adjust=True, the weights 1, (1-alpha), (1-alpha)^2, ...
ewm_step_adjust(prev, x, alpha) ==
    IF ~isnan(prev.weighted)
    THEN LET old_wt == FMul(prev.old_wt, FSub(One, alpha))
         IN IF ~isnan(x)
            THEN [weighted |-> FDiv(FAdd(FMul(old_wt, prev.weighted), x), FAdd(old_wt, One)),
                  old_wt |-> FAdd(old_wt, One)]
            ELSE [weighted |-> prev.weighted, old_wt |-> old_wt]
    ELSE IF ~isnan(x) THEN [weighted |-> x, old_wt |-> prev.old_wt]
    ELSE prev

\* one step of pandas' ewm(alpha=alpha, adjust=False).mean(), with its
\* defaults ignore_na=False and min_periods=0: a value after nans seeds the
\* mean; a nan after a value leaves the mean standing and ages its weight
ewm_step(prev, x, alpha) ==
    IF ~isnan(prev.weighted)
    THEN LET old_wt == FMul(prev.old_wt, FSub(One, alpha))
         IN IF ~isnan(x)
            THEN [weighted |-> FDiv(FAdd(FMul(old_wt, prev.weighted), FMul(alpha, x)), FAdd(old_wt, alpha)),
                  old_wt |-> One]
            ELSE [weighted |-> prev.weighted, old_wt |-> old_wt]
    ELSE IF ~isnan(x) THEN [weighted |-> x, old_wt |-> prev.old_wt]
    ELSE prev

\* series.ewm(alpha=alpha, adjust=False).mean()
RECURSIVE ewm_from(_, _, _, _, _)
ewm_from(sq, alpha, i, prev, acc) ==
    IF i > Len(sq) THEN acc
    ELSE LET st == IF i = 1 THEN [weighted |-> sq[1], old_wt |-> One]
                   ELSE ewm_step(prev, sq[i], alpha)
         IN ewm_from(sq, alpha, i + 1, st, Append(acc, st.weighted))

ewm_mean(sq, alpha) == ewm_from(sq, alpha, 1, [weighted |-> nan, old_wt |-> One], <<>>)

\* compute_kd_recursive(df, n, alpha): the columns it adds
compute_kd_recursive(df, n, alpha) ==
    LET K == ewm_mean(rsv(df, n), alpha)
    IN [K |-> K, D |-> ewm_mean(K, alpha)]

\* .dropna(subset=["K","D"]): the positions that stay
dropna(kd) == {i \in Idx(kd.K) : ~isnan(kd.K[i]) /\ ~isnan(kd.D[i])}

\* the longest series
MaxBars == 4

\* bars: one without range and two with
Bars == {[High |-> 1, Low |-> 1, Close |-> 1],
         [High |-> 3, Low |-> 1, Close |-> 2],
         [High |-> 2, Low |-> 1, Close |-> 1]}

RECURSIVE SeqsUpTo(_, _)
SeqsUpTo(S, k) ==
    IF k = 0 THEN {<<>>}
    ELSE LET shorter == SeqsUpTo(S, k - 1)
         IN shorter \cup {Append(q, x) : q \in {r \in shorter : Len(r) = k - 1}, x \in S}

\* the periods and smoothing factors tried
Periods == {2, 3}
Alphas == {<<1, 3>>, <<1, 2>>}

InitKD ==
    /\ ProcInit
    /\ LineIdle
    /\ MainIdle
    /\ SendIdle
    /\ args \in [df : SeqsUpTo(Bars, MaxBars), n : Periods, alpha : Alphas]
    /\ result = <<>>

\* lines 231 and 236: compute_kd_recursive(df).dropna(subset=["K","D"])
ApplyKD ==
    /\ result = <<>>
    /\ LET kd == compute_kd_recursive(args.df, args.n, args.alpha)
       IN result' = [rsv |-> rsv(args.df, args.n), K |-> kd.K, D |-> kd.D, kept |-> dropna(kd)]
    /\ UNCHANGED args
    /\ UNCHANGED notPure

NextKD == ApplyKD

SpecKD == InitKD /\ [][NextKD]_vars

\* C17: compute_kd_recursive returns K and D of the length of its input,
\* undefined at the first n-1 positions; for an input shorter than n no K or D
\* is defined and dropping the undefined rows leaves nothing
C17_KDLengthAndWarmup ==
    result # <<>> =>
        /\ Len(result.K) = Len(args.df)
        /\ Len(result.D) = Len(args.df)
        /\ \A i \in Idx(args.df) : i <= args.n - 1 => isnan(result.K[i]) /\ isnan(result.D[i])
        /\ Len(args.df) < args.n =>
               /\ \A i \in Idx(args.df) : isnan(result.K[i]) /\ isnan(result.D[i])
               /\ result.kept = {}

\* one bar more than n: the first n-1 rows undefined, the n-th defined
C17_Witness ==
    /\ result # <<>>
    /\ Len(args.df) = args.n + 1
    /\ isnan(result.K[args.n - 1])
    /\ ~isnan(result.K[args.n])
    /\ result.kept = {args.n, args.n + 1}

\* the n bars ending at position i have one price: highest high = lowest low
FlatWindow(i) ==
    /\ i >= args.n
    /\ \A j, k \in (i - args.n + 1)..i : args.df[j].High = args.df[k].Low

\* C18: at every position whose n-bar window has highest high equal to lowest
\* low, RSV is undefined and the K and D that compute_kd_recursive returns
\* are undefined too, also after positions with a defined K
C18_FlatRangeUndefined ==
    result # <<>> =>
        \A i \in Idx(args.df) :
            FlatWindow(i) => isnan(result.rsv[i]) /\ isnan(result.K[i]) /\ isnan(result.D[i])

\* what the code does: RSV is undefined at a flat window; K and D are
\* undefined there only while no earlier RSV was defined, and otherwise repeat
\* the K of the position before and smooth D with it
C18_FlatRangeCarriesForward ==
    result # <<>> =>
        \A i \in Idx(args.df) :
            FlatWindow(i) =>
                /\ isnan(result.rsv[i])
                /\ IF \A j \in 1..(i - 1) : isnan(result.rsv[j])
                   THEN isnan(result.K[i]) /\ isnan(result.D[i])
                   ELSE result.K[i] = result.K[i - 1] /\ ~isnan(result.D[i])

\* a flat window after a defined K: the row has a K and stays after dropna
C18_Reached ==
    /\ result # <<>>
    /\ \E i \in Idx(args.df) :
          /\ FlatWindow(i)
          /\ ~isnan(result.K[i - 1])
          /\ i \in result.kept

\* alpha * x + (1 - alpha) * y
Smooth(x, y) == FAdd(FMul(args.alpha, x), FMul(FSub(One, args.alpha), y))

\* RSV is defined at every position from the n-th on
RSVDefined ==
    /\ Len(args.df) >= args.n
    /\ \A i \in Idx(args.df) : i >= args.n => ~isnan(result.rsv[i])

\* C19: for a series whose RSV is defined from the n-th position on, K at the
\* n-th position is that RSV and every later K is alpha * RSV + (1 - alpha) *
\* the K before; D is the same recursion over K, starting from the first K
C19_RecursiveSmoothing ==
    (result # <<>> /\ RSVDefined) =>
        /\ result.K[args.n] = result.rsv[args.n]
        /\ result.D[args.n] = result.K[args.n]
        /\ \A i \in Idx(args.df) : i > args.n =>
               /\ result.K[i] = Smooth(result.rsv[i], result.K[i - 1])
               /\ result.D[i] = Smooth(result.K[i], result.D[i - 1])

\* two smoothing steps after the seed, with K moving
C19_Witness ==
    /\ result # <<>>
    /\ RSVDefined
    /\ Len(args.df) = args.n + 2
    /\ result.K[args.n] # <<50, 1>>
    /\ result.K[args.n + 1] # result.K[args.n]
    /\ result.K[args.n + 2] # result.K[args.n + 1]
    /\ result.D[args.n + 2] # result.K[args.n + 2]

\* ---- send_to ----------------------------------------------------------------------
Rids == {"U1", "U2", "G1"}

InitSend ==
    /\ ProcInit
    /\ LineIdle
    /\ MainIdle
    /\ PureIdle
    /\ s_pc = "start"
    /\ s_recipients \in SUBSET Rids
    /\ s_dry \in BOOLEAN
    /\ s_todo = {}
    /\ s_rid = ""
    /\ s_calls = [r \in Rids |-> 0]
    /\ s_errors = {}
    /\ s_printed = 0

\* lines 207-212: nothing for no recipients, one printed line in a dry run,
\* else the loop over the set
SendStart ==
    /\ s_pc = "start"
    /\ IF s_recipients = {}
       THEN s_pc' = "end" /\ UNCHANGED <<s_todo, s_printed>>
       ELSE IF s_dry
       THEN s_pc' = "end" /\ s_printed' = s_printed + 1 /\ UNCHANGED s_todo
       ELSE s_pc' = "loop" /\ s_todo' = s_recipients /\ UNCHANGED s_printed
    /\ UNCHANGED <<s_recipients, s_dry, s_rid, s_calls, s_errors>>
    /\ UNCHANGED notSend

\* lines 212-215: push_text(rid, text) for the next rid of the set; it returns
\* or, when LINE refuses or cannot be reached, raises
SendPush(rid, raises) ==
    /\ s_pc = "loop"
    /\ rid \in s_todo
    /\ s_rid' = rid
    /\ s_todo' = s_todo \ {rid}
    /\ s_calls' = [s_calls EXCEPT ![rid] = @ + 1]
    /\ IF raises
       THEN s_pc' = "except" /\ s_errors' = s_errors \cup {rid}
       ELSE s_pc' = "loop" /\ UNCHANGED s_errors
    /\ UNCHANGED <<s_recipients, s_dry, s_printed>>
    /\ UNCHANGED notSend

\* mutant: an exception ends the loop
SendExceptBreaks ==
    /\ s_pc = "except"
    /\ s_pc' = "loop"
    /\ s_todo' = {}
    /\ UNCHANGED <<s_recipients, s_dry, s_rid, s_calls, s_errors, s_printed>>
    /\ UNCHANGED notSend

\* lines 215-216: except Exception prints [ERROR] and the loop goes on
SendExcept ==
    /\ s_pc = "except"
    /\ s_pc' = "loop"
    /\ UNCHANGED <<s_recipients, s_dry, s_todo, s_rid, s_calls, s_errors, s_printed>>
    /\ UNCHANGED notSend

\* the set is exhausted: send_to returns
SendReturn ==
    /\ s_pc = "loop"
    /\ s_todo = {}
    /\ s_pc' = "end"
    /\ UNCHANGED <<s_recipients, s_dry, s_todo, s_rid, s_calls, s_errors, s_printed>>
    /\ UNCHANGED notSend

NextSend ==
    \/ SendStart
    \/ \E rid \in Rids, raises \in BOOLEAN : SendPush(rid, raises)
    \/ SendExcept
    \/ SendReturn

SpecSend == InitSend /\ [][NextSend]_vars

\* C20: outside a dry run send_to has called push_text exactly once for every
\* recipient when it returns, whatever calls raised, never twice for one and
\* never for anyone else, and it returns rather than raises; for an empty set
\* nothing is pushed
C20_SendIsolates ==
    /\ s_pc \in {"start", "loop", "except", "end"}
    /\ s_pc # "start" =>
          /\ \A r \in Rids : s_calls[r] <= 1
          /\ \A r \in Rids \ s_recipients : s_calls[r] = 0
    /\ (s_pc = "end" /\ ~s_dry) => \A r \in s_recipients : s_calls[r] = 1
    /\ (s_pc = "end" /\ s_recipients = {}) => \A r \in Rids : s_calls[r] = 0

\* three recipients, a push raised and a later one returned, all three were attempted
C20_Witness ==
    /\ s_pc = "end"
    /\ ~s_dry
    /\ s_recipients = Rids
    /\ s_errors # {}
    /\ s_errors # Rids
    /\ s_rid \notin s_errors
    /\ \A r \in Rids : s_calls[r] = 1

\* ---- the weekly moving average at the settled weekly row -------------------------
\* ma(series, n): series.rolling(n, min_periods=n).mean(), series of integers
RECURSIVE SumSeq(_)
SumSeq(sq) == IF sq = <<>> THEN 0 ELSE Head(sq) + SumSeq(Tail(sq))

ma(col, n) ==
    [i \in Idx(col) |-> IF Window(col, n, i) = <<>> THEN nan ELSE Frac(SumSeq(Window(col, n, i)), n)]

\* the weekly series fetched: one bar repeated, of every length up to where
\* the average is defined at the settled row
WeekBars == {[High |-> 3, Low |-> 1, Close |-> 2], [High |-> 2, Low |-> 1, Close |-> 1]}
WeekLens == 1..(need_w + K_PERIOD)

\* the positions of df that .dropna(subset=["K","D"]) keeps, in order
KeptRows(df, kd) ==
    SelectSeq([i \in Idx(df) |-> i], LAMBDA i : ~isnan(kd.K[i]) /\ ~isnan(kd.D[i]))

\* lines 226-227 (the weekly test) and 236-257: the settled weekly row and the
\* moving average looked up at it, or the skip
SettledWeekly(df) ==
    LET kd == compute_kd_recursive(df, K_PERIOD, <<1, 3>>)
        rows == KeptRows(df, kd)
        w_kd_close == [j \in Idx(rows) |-> df[rows[j]].Close]
        w_ma20_series == ma(w_kd_close, WEEKLY_MA)
    IN IF Len(df) < need_w \/ Len(rows) < 2
       THEN [skipped |-> TRUE, w_idx |-> 0, w_ma20 |-> nan]
       ELSE [skipped |-> FALSE, w_idx |-> rows[Len(rows) - 1], w_ma20 |-> w_ma20_series[Len(rows) - 1]]

InitWeeklyMA ==
    /\ ProcInit
    /\ LineIdle
    /\ MainIdle
    /\ SendIdle
    /\ args \in [len : WeekLens, bar : WeekBars]
    /\ result = <<>>

ApplySettledWeekly ==
    /\ result = <<>>
    /\ result' = SettledWeekly([i \in 1..args.len |-> args.bar])
    /\ UNCHANGED args
    /\ UNCHANGED notPure

NextWeeklyMA == ApplySettledWeekly

SpecWeeklyMA == InitWeeklyMA /\ [][NextWeeklyMA]_vars

\* C21: the weekly moving average looked up at the settled weekly row is
\* defined whenever the fetched weekly series holds at least WEEKLY_MA closes up
\* to and including that row; so it is defined for every symbol that passes
\* the minimum-history test
C21_WeeklyMADefined ==
    (result # <<>> /\ ~result.skipped) =>
        /\ result.w_idx >= WEEKLY_MA => ~isnan(result.w_ma20)
        /\ args.len >= WEEKLY_MA + 2 => ~isnan(result.w_ma20)

\* what the code does: the average is taken over the rows left after the
\* first K_PERIOD-1 were dropped, and is defined from WEEKLY_MA of those on
C21_WeeklyMANeedsMore ==
    (result # <<>> /\ ~result.skipped) =>
        (~isnan(result.w_ma20) <=> result.w_idx >= WEEKLY_MA + K_PERIOD - 1)

\* ---- _post: the bounded retry -------------------------------------------------------
\* the largest retries tried (the default is 2)
MaxRetries == 2

\* r.status_code: success, the codes retried, two others
Retried == {429, 500, 502, 503, 504}
Statuses == {200} \cup Retried \cup {400, 401}

InitPost ==
    /\ ProcInit
    /\ MainIdle
    /\ PureIdle
    /\ SendIdle
    /\ SubsIdle
    /\ HookIdle
    /\ p_pc = "post"
    /\ p_retries \in 0..MaxRetries
    /\ p_i = 0
    /\ p_log = <<>>

\* mutant: a retried status is retried on the last attempt too
PostAttemptKeepsRetrying(status) ==
    /\ p_pc = "post"
    /\ p_log' = Append(p_log, status)
    /\ p_pc' = IF status = 200 THEN "returned"
              ELSE IF status \in Retried /\ p_i <= p_retries THEN "sleep"
              ELSE "raised"
    /\ UNCHANGED <<p_retries, p_i>>
    /\ UNCHANGED notPost

\* lines 23-30: one POST and what its status leads to
PostAttempt(status) ==
    /\ p_pc = "post"
    /\ p_log' = Append(p_log, status)
    /\ p_pc' = IF status = 200 THEN "returned"
              ELSE IF status \in Retried /\ p_i < p_retries THEN "sleep"
              ELSE "raised"
    /\ UNCHANGED <<p_retries, p_i>>
    /\ UNCHANGED notPost

\* line 23: requests raises (no connection, timeout after 15 s): the exception
\* leaves _post
PostUnreachable ==
    /\ p_pc = "post"
    /\ p_log' = Append(p_log, 0)
    /\ p_pc' = "failed"
    /\ UNCHANGED <<p_retries, p_i>>
    /\ UNCHANGED notPost

\* lines 28-29 and 22: time.sleep(backoff * (i + 1)); continue; the next i
PostSleep ==
    /\ p_pc = "sleep"
    /\ p_i' = p_i + 1
    /\ p_pc' = "post"
    /\ UNCHANGED <<p_retries, p_log>>
    /\ UNCHANGED notPost

NextPost ==
    \/ \E status \in Statuses : PostAttempt(status)
    \/ PostUnreachable
    \/ PostSleep

SpecPost == InitPost /\ [][NextPost]_vars

\* the status of the last POST made
LastStatus == p_log[Len(p_log)]

DigitChars == {"0", "2", "3"}
Lowers == <<"a", "c", "d", "e", "h", "i", "l", "m", "o", "p", "r", "s", "t", "v", "w">>
Uppers == <<"A", "C", "D", "E", "H", "I", "L", "M", "O", "P", "R", "S", "T", "V", "W">>
UpperChars == {Uppers[i] : i \in 1..Len(Uppers)}
LowerChars == {Lowers[i] : i \in 1..Len(Lowers)}

\* str.upper() and str.lower(), character by character
UpperOf(c) == IF c \in LowerChars THEN Uppers[CHOOSE i \in 1..Len(Lowers) : Lowers[i] = c] ELSE c
LowerOf(c) == IF c \in UpperChars THEN Lowers[CHOOSE i \in 1..Len(Uppers) : Uppers[i] = c] ELSE c
upper(str) == [i \in 1..Len(str) |-> UpperOf(str[i])]
lower(str) == [i \in 1..Len(str) |-> LowerOf(str[i])]

\* str.strip()
RECURSIVE lstrip(_)
lstrip(str) == IF str # <<>> /\ Head(str) = " " THEN lstrip(Tail(str)) ELSE str
RECURSIVE rstrip(_)
rstrip(str) ==
    IF str # <<>> /\ str[Len(str)] = " " THEN rstrip(SubSeq(str, 1, Len(str) - 1)) ELSE str
strip(str) == rstrip(lstrip(str))

\* str.endswith(suffix)
endswith(str, suffix) ==
    Len(str) >= Len(suffix) /\ SubSeq(str, Len(str) - Len(suffix) + 1, Len(str)) = suffix

\* _SYMBOL_RE: ^[A-Za-z0-9\.]{1,12}$
SYMBOL_RE(str) ==
    /\ Len(str) \in 1..12
    /\ \A i \in 1..Len(str) : str[i] \in DigitChars \cup UpperChars \cup LowerChars \cup {"."}

\* _TW_NUM_LETTERS: ^\d{1,6}[A-Z]{0,2}$
TW_NUM_LETTERS(str) ==
    \E nd \in 1..6 :
        /\ nd <= Len(str)
        /\ Len(str) - nd <= 2
        /\ \A i \in 1..Len(str) : IF i <= nd THEN str[i] \in DigitChars ELSE str[i] \in UpperChars

\* ensure_tw_suffix(symbol)
ensure_tw_suffix(symbol) ==
    LET str == upper(strip(symbol))
    IN IF endswith(str, <<".", "T", "W">>) \/ endswith(str, <<".", "T", "W", "O">>) THEN str
       ELSE IF TW_NUM_LETTERS(str) THEN str \o <<".", "T", "W">>
       ELSE str

\* _normalize_map(d), a stored list being the set of its members (uniq, sorted)
normalize_map(d) ==
    [rid \in DOMAIN d |->
        {ensure_tw_suffix(x) : x \in {y \in d[rid] : SYMBOL_RE(ensure_tw_suffix(y))}}]

\* data.get(recipient_id, [])
GetList(data, rid) == IF rid \in DOMAIN data THEN data[rid] ELSE {}

\* data[recipient_id] = sorted(cur); have is cur
SetList(data, rid, have) == [r \in DOMAIN data \cup {rid} |-> IF r = rid THEN have ELSE data[r]]

\* mutant: the loop of add_symbols without the membership test
RECURSIVE add_loop_always_appends(_, _, _, _, _)
add_loop_always_appends(symbols, i, have, added, skipped) ==
    IF i > Len(symbols) THEN [cur |-> have, added |-> added, skipped |-> skipped]
    ELSE LET sy == ensure_tw_suffix(symbols[i])
         IN IF ~SYMBOL_RE(sy)
            THEN add_loop_always_appends(symbols, i + 1, have, added, Append(skipped, symbols[i]))
            ELSE add_loop_always_appends(symbols, i + 1, have \cup {sy}, Append(added, sy), skipped)

\* lines 105-110: the loop of add_symbols from position i on
RECURSIVE add_loop(_, _, _, _, _)
add_loop(symbols, i, have, added, skipped) ==
    IF i > Len(symbols) THEN [cur |-> have, added |-> added, skipped |-> skipped]
    ELSE LET sy == ensure_tw_suffix(symbols[i])
         IN IF ~SYMBOL_RE(sy) THEN add_loop(symbols, i + 1, have, added, Append(skipped, symbols[i]))
            ELSE IF sy \notin have THEN add_loop(symbols, i + 1, have \cup {sy}, Append(added, sy), skipped)
            ELSE add_loop(symbols, i + 1, have, added, skipped)

\* lines 120-123: the loop of remove_symbols from position i on
RECURSIVE remove_loop(_, _, _, _)
remove_loop(symbols, i, have, removed) ==
    IF i > Len(symbols) THEN [cur |-> have, removed |-> removed]
    ELSE LET sy == ensure_tw_suffix(symbols[i])
         IN IF sy \in have THEN remove_loop(symbols, i + 1, have \ {sy}, Append(removed, sy))
            ELSE remove_loop(symbols, i + 1, have, removed)

\* ---- subscriptions.py: the calls, load and save apart ---------------------------------
\* what users type for a symbol
RawSyms ==
    {<<"2", "3", "3", "0">>,
     <<"2", "3", "3", "0", ".", "t", "w">>,
     <<"a", "2">>,
     <<" ", "0", "0", "a">>,
     <<"?">>,
     <<>>,
     <<"A", "A", "A", "A", "A", "A", "A", "A", "A", "A", "A", "A", "A">>}

\* the argument lists: up to two symbols
SymLists == {<<>>} \cup {<<x>> : x \in RawSyms} \cup {<<x, y>> : x \in RawSyms, y \in RawSyms}

\* the stored maps the program has written: lists already normalised
StoredFiles ==
    {f \in UNION {[D -> {{}, {<<"2", "3", "3", "0", ".", "T", "W">>}, {<<"A", "2">>}}] : D \in SUBSET {"U1", "U2"}} :
        \A r \in DOMAIN f : (r = "U1" => f[r] # {<<"A", "2">>}) /\ (r = "U2" => f[r] # {})}

Ops == {"add", "remove", "clear"}

\* a call that has not started
NewJob(op, rid, symbols) ==
    [op |-> op, rid |-> rid, symbols |-> symbols, pc |-> "call", data |-> <<>>, ret |-> <<>>,
     n |-> 1, before |-> <<>>, first |-> <<>>]

\* one caller, any operation
InitSubs ==
    /\ ProcInit
    /\ MainIdle
    /\ PureIdle
    /\ SendIdle
    /\ PostIdle
    /\ HookIdle
    /\ file \in StoredFiles
    /\ \E op \in Ops, rid \in {"U1", "U2"}, symbols \in SymLists :
          jobs = [wk \in {"A"} |-> NewJob(op, rid, symbols)]

\* store = _get_backend(); data = store.load()
SubsLoad(wk) ==
    /\ jobs[wk].pc = "call"
    /\ jobs' = [jobs EXCEPT ![wk].pc = "loaded",
                            ![wk].data = normalize_map(file),
                            ![wk].before = file]
    /\ UNCHANGED file
    /\ UNCHANGED notSubs

\* what the call makes of the data it loaded: the new data and the return value
Outcome(job) ==
    LET have == GetList(job.data, job.rid)
    IN CASE job.op = "add" ->
              LET r == add_loop(job.symbols, 1, have, <<>>, <<>>)
              IN [data |-> SetList(job.data, job.rid, r.cur),
                  ret |-> [added |-> r.added, skipped |-> r.skipped]]
         [] job.op = "remove" ->
              LET r == remove_loop(job.symbols, 1, have, <<>>)
              IN [data |-> SetList(job.data, job.rid, r.cur), ret |-> [removed |-> r.removed]]
         [] job.op = "clear" ->
              [data |-> SetList(job.data, job.rid, {}), ret |-> [n |-> Cardinality(have)]]

\* the loop, data[recipient_id] = ..., store.save(data), return
SubsSave(wk) ==
    /\ jobs[wk].pc = "loaded"
    /\ file' = normalize_map(Outcome(jobs[wk]).data)
    /\ jobs' = [jobs EXCEPT ![wk].pc = "returned",
                            ![wk].data = Outcome(jobs[wk]).data,
                            ![wk].ret = Outcome(jobs[wk]).ret]
    /\ UNCHANGED notSubs

\* the caller calls again with the same arguments
SubsAgain(wk) ==
    /\ jobs[wk].pc = "returned"
    /\ jobs[wk].n = 1
    /\ jobs' = [jobs EXCEPT ![wk].pc = "call",
                            ![wk].n = 2,
                            ![wk].first = [ret |-> jobs[wk].ret, after |-> file]]
    /\ UNCHANGED file
    /\ UNCHANGED notSubs

NextSubs ==
    \/ \E wk \in DOMAIN jobs : SubsLoad(wk)
    \/ \E wk \in DOMAIN jobs : SubsSave(wk)
    \/ \E wk \in DOMAIN jobs : SubsAgain(wk)

SpecSubs == InitSubs /\ [][NextSubs]_vars

\* the members of a list
Members(sq) == {sq[i] : i \in 1..Len(sq)}

\* the normalised forms of the valid symbols of a list, and its invalid inputs
ValidOf(symbols) == {ensure_tw_suffix(x) : x \in {y \in Members(symbols) : SYMBOL_RE(ensure_tw_suffix(y))}}
InvalidOf(symbols) == {y \in Members(symbols) : ~SYMBOL_RE(ensure_tw_suffix(y))}

\* C24: after add_symbols(rid, S) the stored set of rid is its previous set
\* with the normalised valid symbols of S added, 'added' holds exactly the
\* normalised symbols that were not there before, each once, 'skipped' holds
\* the invalid inputs, every other recipient's list is as before; the same
\* call again adds nothing
C24_AddSymbols ==
    \A wk \in DOMAIN jobs :
        LET job == jobs[wk]
            prev == GetList(job.before, job.rid)
        IN (job.op = "add" /\ job.pc = "returned") =>
              /\ DOMAIN file = DOMAIN job.before \cup {job.rid}
              /\ file[job.rid] = prev \cup ValidOf(job.symbols)
              /\ \A r \in DOMAIN job.before \ {job.rid} : file[r] = job.before[r]
              /\ Members(job.ret.added) = ValidOf(job.symbols) \ prev
              /\ Len(job.ret.added) = Cardinality(Members(job.ret.added))
              /\ Members(job.ret.skipped) = InvalidOf(job.symbols)
              /\ job.n = 2 => job.ret.added = <<>> /\ file = job.first.after

\* two spellings of one symbol are added to a list that holds another, next
\* to a second recipient's list; the call is made again
C24_Witness ==
    /\ "A" \in DOMAIN jobs
    /\ jobs["A"].op = "add"
    /\ jobs["A"].pc = "returned"
    /\ jobs["A"].n = 2
    /\ jobs["A"].rid = "U1"
    /\ jobs["A"].symbols = <<<<"2", "3", "3", "0">>, <<"2", "3", "3", "0", ".", "t", "w">>>>
    /\ Len(jobs["A"].first.ret.added) = 1
    /\ "U2" \in DOMAIN file
    /\ file["U1"] = {<<"2", "3", "3", "0", ".", "T", "W">>}

\* ---- subscriptions.py: two calls at once ------------------------------------------------
\* two callers (two webhook workers), each with one call of one symbol
InitSubsRace ==
    /\ ProcInit
    /\ MainIdle
    /\ PureIdle
    /\ SendIdle
    /\ PostIdle
    /\ HookIdle
    /\ file \in StoredFiles
    /\ jobs \in [{"A", "B"} ->
                  {NewJob(op, rid, <<x>>) : op \in Ops, rid \in {"U1", "U2"},
                                            x \in {<<"2", "3", "3", "0">>, <<"a", "2">>}}]

\* the steps of the two calls in any order
NextSubsRace ==
    \/ \E wk \in DOMAIN jobs : SubsLoad(wk)
    \/ \E wk \in DOMAIN jobs : SubsSave(wk)

SpecSubsRace == InitSubsRace /\ [][NextSubsRace]_vars

\* the file after the call of job, run alone on the file f
RunAlone(f, job) == normalize_map(Outcome([job EXCEPT !.data = normalize_map(f)]).data)

\* C25: when two calls on the same store have both returned, whatever the
\* order of their loads and saves, the file is what the two calls give one
\* after the other, in one order or the other, on the file they started from
C25_NoLostUpdate ==
    (\A wk \in DOMAIN jobs : jobs[wk].pc = "returned") =>
        \E first \in DOMAIN jobs :
            \A second \in DOMAIN jobs \ {first} :
                \/ file = RunAlone(RunAlone(jobs[first].before, jobs[first]), jobs[second])
                \/ file = RunAlone(RunAlone(jobs[first].before, jobs[second]), jobs[first])

\* both calls loaded before either saved, and the file lacks what the first
\* to save had added
C25_Lost ==
    /\ \A wk \in DOMAIN jobs : jobs[wk].pc = "returned" /\ jobs[wk].op = "add"
    /\ jobs["A"].before = jobs["B"].before
    /\ jobs["A"].rid # jobs["B"].rid
    /\ jobs["A"].rid \notin DOMAIN file \/ jobs["B"].rid \notin DOMAIN file

\* ---- line_webhook.py -------------------------------------------------------------------
\* words, as character sequences
W_add == <<"a", "d", "d">>
W_remove == <<"r", "e", "m", "o", "v", "e">>
W_list == <<"l", "i", "s", "t">>
W_clear == <<"c", "l", "e", "a", "r">>
W_help == <<"h", "e", "l", "p">>
W_2330 == <<"2", "3", "3", "0">>

\* _VALID_CMDS
VALID_CMDS == {W_add, W_remove, W_list, W_clear, W_help}

\* _ALIASES.get(cmd, cmd), for the ASCII aliases rm, l, h and ?
Alias(cmd) ==
    CASE cmd = <<"r", "m">> -> W_remove
      [] cmd = <<"l">> -> W_list
      [] cmd = <<"h">> -> W_help
      [] cmd = <<"?">> -> W_help
      [] OTHER -> cmd

\* _looks_like_symbols(tokens)
looks_like_symbols(tokens) ==
    /\ \E i \in 1..Len(tokens) : tokens[i] # <<>>
    /\ \A i \in 1..Len(tokens) : tokens[i] # <<>> => SYMBOL_RE(tokens[i])

\* _parse_cmd(s), the text given as the pieces the split makes of it; a
\* leading "/" sits on the first piece
parse_cmd(text) ==
    LET unslashed == IF text # <<>> /\ Head(text) # <<>> /\ Head(Head(text)) = "/"
                     THEN <<Tail(Head(text))>> \o Tail(text)
                     ELSE text
        parts == SelectSeq(unslashed, LAMBDA piece : piece # <<>>)
    IN IF parts = <<>> THEN [cmd |-> <<>>, args |-> <<>>]
       ELSE LET cmd == Alias(lower(parts[1]))
                cand == <<cmd>> \o Tail(parts)
            IN IF cmd \notin VALID_CMDS /\ looks_like_symbols(cand)
               THEN [cmd |-> W_add, args |-> cand]
               ELSE [cmd |-> cmd, args |-> Tail(parts)]

\* the texts users send
Texts ==
    {<<>>, <<W_help>>, <<<<"?">>>>, <<W_add>>, <<W_add, W_2330>>, <<<<"/", "A", "d", "d">>, W_2330>>,
     <<W_add, <<"!">>>>, <<W_2330>>, <<<<"r", "m">>>>, <<<<"r", "m">>, W_2330>>, <<W_clear>>,
     <<W_list>>, <<<<"!">>>>}

\* events: text messages with or without reply token and source id, a
\* message that is not text, an event that is no message
Events ==
    {[type |-> "message", mtype |-> "text", text |-> t, token |-> tk, rid |-> r] :
        t \in Texts, tk \in BOOLEAN, r \in {"", "U1"}}
    \cup {[type |-> "message", mtype |-> "image", text |-> <<>>, token |-> TRUE, rid |-> "U1"],
          [type |-> "follow", mtype |-> "", text |-> <<>>, token |-> TRUE, rid |-> "U1"]}

\* body["events"]: up to two events
Bodies == {<<>>} \cup {<<e>> : e \in Events} \cup {<<e, f>> : e \in Events, f \in Events}

InitHook ==
    /\ ProcInit
    /\ MainIdle
    /\ PureIdle
    /\ SendIdle
    /\ PostIdle
    /\ file \in {<<>>, [r \in {"U1"} |-> {W_2330 \o <<".", "T", "W">>}]}
    /\ jobs = <<>>
    /\ h_pc = "start"
    /\ h_events \in Bodies
    /\ h_i = 0
    /\ h_log = <<>>

\* lines 84-90: the signature is checked, the loop starts or 400 is returned
HookVerify(ok) ==
    /\ h_pc = "start"
    /\ h_pc' = IF ok THEN "loop" ELSE "rejected"
    /\ h_i' = 1
    /\ UNCHANGED <<h_events, h_log, file, jobs>>
    /\ UNCHANGED notHook

\* the subscription call the command makes, if any
StoreOp(c) ==
    IF c.cmd = W_add /\ c.args # <<>> THEN "add"
    ELSE IF c.cmd = W_remove /\ c.args # <<>> THEN "remove"
    ELSE IF c.cmd = W_clear THEN "clear"
    ELSE "none"

\* mutant: a command word without arguments gets no reply
HookEventSilentWithoutArgs ==
    /\ h_pc = "loop"
    /\ h_i <= Len(h_events)
    /\ LET e == h_events[h_i]
           c == parse_cmd(e.text)
       IN IF e.type # "message" \/ e.mtype # "text" \/ e.rid = "" \/ ~e.token
             \/ (c.cmd \in {W_add, W_remove} /\ c.args = <<>>)
          THEN h_i' = h_i + 1 /\ UNCHANGED <<h_pc, h_log, file>>
          ELSE IF StoreOp(c) # "none"
          THEN /\ file' = RunAlone(file, NewJob(StoreOp(c), e.rid, c.args))
               /\ h_log' = Append(h_log, [ev |-> h_i, did |-> "store"])
               /\ h_pc' = "reply"
               /\ UNCHANGED h_i
          ELSE h_pc' = "reply" /\ UNCHANGED <<h_i, h_log, file>>
    /\ UNCHANGED <<h_events, jobs>>
    /\ UNCHANGED notHook

\* lines 90-143 up to the reply: the event is passed over, or its command is
\* parsed and, for add/remove with arguments and clear, the store is updated
HookEvent ==
    /\ h_pc = "loop"
    /\ h_i <= Len(h_events)
    /\ LET e == h_events[h_i]
           c == parse_cmd(e.text)
       IN IF e.type # "message" \/ e.mtype # "text" \/ e.rid = "" \/ ~e.token
          THEN h_i' = h_i + 1 /\ UNCHANGED <<h_pc, h_log, file>>
          ELSE IF StoreOp(c) # "none"
          THEN /\ file' = RunAlone(file, NewJob(StoreOp(c), e.rid, c.args))
               /\ h_log' = Append(h_log, [ev |-> h_i, did |-> "store"])
               /\ h_pc' = "reply"
               /\ UNCHANGED h_i
          ELSE h_pc' = "reply" /\ UNCHANGED <<h_i, h_log, file>>
    /\ UNCHANGED <<h_events, jobs>>
    /\ UNCHANGED notHook

\* reply_text(reply_token, ...) returns; continue
HookReply ==
    /\ h_pc = "reply"
    /\ h_log' = Append(h_log, [ev |-> h_i, did |-> "reply"])
    /\ h_i' = h_i + 1
    /\ h_pc' = "loop"
    /\ UNCHANGED <<h_events, file, jobs>>
    /\ UNCHANGED notHook

\* line 145: the loop is over, "OK"
HookReturn ==
    /\ h_pc = "loop"
    /\ h_i > Len(h_events)
    /\ h_pc' = "end"
    /\ UNCHANGED <<h_events, h_i, h_log, file, jobs>>
    /\ UNCHANGED notHook

NextHook ==
    \/ \E ok \in BOOLEAN : HookVerify(ok)
    \/ HookEvent
    \/ HookReply
    \/ HookReturn

SpecHook == InitHook /\ [][NextHook]_vars

\* reply_text raises (_post raised): the exception leaves the handler
HookReplyRaises ==
    /\ h_pc = "reply"
    /\ h_log' = Append(h_log, [ev |-> h_i, did |-> "reply"])
    /\ h_pc' = "raised"
    /\ UNCHANGED <<h_events, h_i, file, jobs>>
    /\ UNCHANGED notHook

NextHookFault ==
    \/ NextHook
    \/ HookReplyRaises

SpecHookFault == InitHook /\ [][NextHookFault]_vars

\* the events that are text messages with a reply token and a source id
Answerable(i) ==
    /\ h_events[i].type = "message"
    /\ h_events[i].mtype = "text"
    /\ h_events[i].token
    /\ h_events[i].rid # ""

\* the positions in the log of what was done for event i
Did(i, what) == {k \in 1..Len(h_log) : h_log[k].ev = i /\ h_log[k].did = what}

NewRun(d) ==
    /\ pc = "idle"
    /\ dry' = d
    /\ state' = store
    /\ UNCHANGED <<store, pc, cur, loc, sym_state, out, saves, pre, repeat, prev_out, short, ee, sent, faults>>
    /\ UNCHANGED <<pushes, prev_dry>>
    /\ UNCHANGED others

\* the process ended when process_symbol had returned; a later process, with
\* DRY_RUN as d, loads the state that one saved and calls process_symbol for the
\* same symbol, and the fetches hand over what they did before
Rerun(d) ==
    /\ pc = "done"
    /\ loc \in Locals
    /\ state = store
    /\ Enter(cur, loc)
    /\ repeat' = TRUE
    /\ prev_out' = out
    /\ prev_dry' = dry
    /\ dry' = d
    /\ UNCHANGED short
    /\ UNCHANGED others

\* the first settled week
FirstWeek == CHOOSE w \in WeeklyStamps : \A v \in WeeklyStamps : w <= v

\* the locals of the runs of one week: every signal, every settled day
WeekLocals == {l \in Locals : l.w_idx = FirstWeek}

NextDry ==
    \/ \E sym \in Symbols, l \in WeekLocals, nd \in DailyLens, nw \in WeeklyLens : Begin(sym, l, nd, nw)
    \/ \E sym \in Symbols, nd \in DailyLens, nw \in WeeklyLens : Skip(sym, nd, nw)
    \/ EntryFire
    \/ EntrySkip
    \/ EntryPersist
    \/ ReduceFire
    \/ ReduceSkip
    \/ ReducePersist
    \/ ExitFire
    \/ ExitSkip
    \/ ExitPersist
    \/ Return
    \/ \E d \in BOOLEAN : NewRun(d)
    \/ \E d \in BOOLEAN : Rerun(d)

SpecDry == Init /\ [][NextDry]_vars

\* lines 286-325 read as one function of the dict st, the symbol and the locals
\* l, with DRY_RUN unset: the dict process_symbol leaves, the alerts it hands to
\* send_to and the number of its save_state calls
LiveRun(st, sym, l) ==
    LET ss0 == GetSymState(st, sym)
        red == ReduceCond(ss0, l.sig, ExKey(l.d_ts))
        ss1 == IF red THEN mark_alert(ss0, ExKey(l.d_ts)) ELSE ss0
        ex  == ExitCond(ss1, l.sig, FullKey(l.w_idx))
        ss2 == IF ex THEN AfterExit(ss1) ELSE ss1
    IN  IF EntryCond(ss0, l.sig)
        THEN [state |-> Assign(st, sym, AfterEntry(ss0, l.d_ts)),
              out   |-> <<Alert("Entry", l.d_ts)>>,
              saves |-> 1]
        ELSE [state |-> IF red \/ ex THEN Assign(st, sym, ss2) ELSE st,
              out   |-> (IF red THEN <<Alert("Reduce", l.d_ts)>> ELSE <<>>)
                        \o (IF ex THEN <<Alert("Exit", l.w_idx)>> ELSE <<>>),
              saves |-> (IF red THEN 1 ELSE 0) + (IF ex THEN 1 ELSE 0)]

\* C26: under DRY_RUN process_symbol passes no alert on to push_text, while a
\* live invocation passes on every alert it decides; whatever DRY_RUN is, the
\* invocation that went through the rules leaves the dict and the store, hands
\* over the alerts and calls save_state as often as the live run of the same
\* inputs on the same starting state does; and a live invocation that repeats a
\* dry one's inputs on the state the dry one left hands over and pushes nothing.
C26_DryRunChangesDeliveryOnly ==
    /\ dry => pushes = 0
    /\ ~dry => pushes = Len(out)
    /\ (pc = "done" /\ loc \in Locals) =>
          /\ state = LiveRun(pre, cur, loc).state
          /\ store = LiveRun(pre, cur, loc).state
          /\ out = LiveRun(pre, cur, loc).out
          /\ saves = LiveRun(pre, cur, loc).saves
    /\ (repeat /\ prev_dry /\ ~dry /\ Running) => (out = <<>> /\ pushes = 0)

\* a live invocation has repeated a dry one that decided a Reduce and an Exit
\* and pushed neither
C26_Witness ==
    /\ repeat /\ prev_dry /\ ~dry /\ pc = "done"
    /\ Kinds(prev_out) = {"Reduce", "Exit"}
    /\ store # EmptyState

\* C11: an invocation handed fewer settled daily bars than
\* max(DAILY_MA+2, K_PERIOD+2) or fewer weekly bars than
\* max(WEEKLY_MA+2, K_PERIOD+2) returns at once: it sends no alert, saves
\* nothing, leaves the dict and STATE_FILE as they were, and raises nothing
C11_ShortHistorySkips ==
    (Running /\ short) =>
        /\ pc = "done"
        /\ out = <<>>
        /\ saves = 0
        /\ state = pre
        /\ loc = NoLocals

\* a short series is skipped while the dict holds a position
C11_Witness ==
    /\ short
    /\ pc = "done"
    /\ Pos(state, cur) = "long"
    /\ state = pre

====
